---- MODULE Spec2Model ----
(***************************************************************************)
(* Per-frame simulation engine of galaxy-jump: the three GameCanvas        *)
(* variants (side-to-side "brisk" of part_000, side-to-side "controlled"   *)
(* of part_001 lines 1-505, "climbing" of part_001 lines 507-792).         *)
(*                                                                         *)
(* Numbers.  The code computes in seconds with floating point; the model   *)
(* keeps every time in integer milliseconds (timeElapsed, lastObstacleTime,*)
(* previousTimeRef) and jumpProgress in thousandths, so that               *)
(* deltaTime = (time - previousTimeRef) / 1000 is the integer difference   *)
(* of two timestamps.  Frame timestamps are multiples of 100 ms, viewport  *)
(* widths are = 2 (mod 4) and heights are multiples of 10, which makes     *)
(* every division below exact.                                             *)
(***************************************************************************)
EXTENDS Integers, Sequences, FiniteSets, TLC

VARIABLES variant, gameState, innerWidth, innerHeight, previousTimeRef,
          handlerState, returnRequested, resizes, sinceOver,
          firstFrameTime, mounted, pendingFrames, requestRef, lastEvent, probe

vars == <<variant, gameState, innerWidth, innerHeight, previousTimeRef,
          handlerState, returnRequested, resizes, sinceOver,
          firstFrameTime, mounted, pendingFrames, requestRef, lastEvent, probe>>

\* ------------------------------------------------------------------ bounds
\* Largest frame timestamp (ms) the model explores.
MaxTime == 3200

\* Number of window resizes the model explores.
MaxResizes == 1

\* Frame-to-frame timestamp differences (ms) and first-frame timestamps (ms).
DeltaTimes == {100, 200, 400}
FirstTimes == {100}
ClockFirstTimes == {1700, 2500}

\* Elapsed times (ms) at which the spawn interval is probed, and the
\* value of the probe while nothing has been probed.
MaxProbes == 400
ProbeTimes == { 50 * k : k \in 0..MaxProbes }
NoProbe == [ t |-> 0, rate |-> 0 ]

\* Late in a run: the elapsed times (ms) a run is picked up at, how long
\* before that the last obstacle was spawned, the frame intervals that
\* follow (the longest spans three spawn intervals), and for how long.
SpawnStarts == {11800, 12000}
SpawnBacks == {0, 200}
LongDeltas == {100, 400, 1000}
MaxSpawnSpan == 1800
SpawnStarts_Last == CHOOSE t \in SpawnStarts : \A u \in SpawnStarts : u <= t

\* The longest climb of the explored viewports, in ms of frames: 100 px
\* at 150 px/s, up to the next multiple of the frame unit.
MaxClimb == 700

\* Values of the event log: switched off, and on with no input event last.
LogOff == [ event |-> "off", command |-> "none" ]

NoEvent == [ event |-> "none", command |-> "none" ]

\* Viewports (window.innerWidth, window.innerHeight).
Widths == {90, 410}
Heights == {110, 300}

Variants == {"brisk", "controlled", "climbing"}
SideToSide == {"brisk", "controlled"}

\* previousTimeRef.current === undefined
Undefined == -1

\* ------------------------------------------------------- program constants
MsPerSecond == 1000
playerSize == 30
speed == 150
obstacleSpeed == 200
obstacleHeight == 80
baseSpawnRate == 1500
minSpawnRate == 300

\* wallWidth of the state created by useState
InitialWallWidth(v) == IF v = "climbing" THEN 40 ELSE 30

\* the gap between a wall and the resting player (prev.wallWidth + 10)
Margin(v) == IF v = "controlled" THEN 0 ELSE 10

\* newJumpProgress += deltaTime * 5 (2.5 in the controlled variant),
\* in thousandths for a deltaTime in ms
JumpAdvance(v, deltaTime) ==
    IF v = "controlled" THEN (deltaTime * 25) \div 10 ELSE deltaTime * 5

\* width of the band tested by handleKeyDown
KeyLineWidth(v) == IF v = "controlled" THEN 20 ELSE 100

\* width of the band tested by gameLoop
LoopLineWidth == 100

\* ------------------------------------------------------------- state shape
InitialPlayerX(v) == IF v = "controlled" THEN 30 ELSE 50

InitialPlayerY(v, H) ==
    CASE v = "brisk" -> H \div 2 - 15
      [] v = "controlled" -> (H * 7) \div 10 - 15
      [] OTHER -> H - 200

InitialState(v, H) ==
    [ playerX |-> InitialPlayerX(v),
      playerY |-> InitialPlayerY(v, H),
      playerSize |-> playerSize,
      wallWidth |-> InitialWallWidth(v),
      speed |-> speed,
      isOnLeftWall |-> TRUE,
      isJumping |-> FALSE,
      jumpProgress |-> 0,
      timeElapsed |-> 0,
      isGameOver |-> FALSE,
      obstacles |-> << >>,
      lastObstacleTime |-> 0 ]

\* The state restartGame passes to setGameState.
RestartState(v, H) ==
    [ InitialState(v, H) EXCEPT !.wallWidth = 40 ]

\* ------------------------------------------------------------ input router
\* a jump that also clears isGameOver
jump_Revives(prev) ==
    [ prev EXCEPT !.isJumping = TRUE, !.jumpProgress = 0, !.isGameOver = FALSE ]

\* a jump that keeps the progress of the previous one
jump_KeepsProgress(prev) == [ prev EXCEPT !.isJumping = TRUE ]

\* jump()
jump(prev) == [ prev EXCEPT !.isJumping = TRUE, !.jumpProgress = 0 ]

returnToSameWall(prev) == [ prev EXCEPT !.isJumping = TRUE, !.jumpProgress = 0 ]

\* playerCenterX within the band centred on window.innerWidth / 2
InBand(x, size, W, lineWidth) ==
    LET centerX == W \div 2
        playerCenterX == x + size \div 2
    IN  /\ playerCenterX >= centerX - lineWidth \div 2
        /\ playerCenterX <= centerX + lineWidth \div 2

\* What the handlers registered by the input effect see of gameState: the
\* render that last re-ran the effect (dependencies [isJumping], and
\* [isJumping, isGameOver] in the climbing variant).
Snapshot(v, s) ==
    [ isJumping |-> s.isJumping,
      isGameOver |-> IF v = "climbing" THEN s.isGameOver ELSE FALSE,
      playerX |-> IF v = "climbing" THEN 0 ELSE s.playerX,
      playerSize |-> s.playerSize ]

\* the input effect re-run after every render
Rebind_EveryRender(v, old, new, h) == Snapshot(v, new)

\* the input effect re-run on a change of isJumping only, in every variant
Rebind_JumpingOnly(v, old, new, h) ==
    IF new.isJumping # old.isJumping THEN Snapshot(v, new) ELSE h

\* the input effect re-runs, and its handlers see the new render, when one
\* of its dependencies has changed
Rebind(v, old, new, h) ==
    IF \/ new.isJumping # old.isJumping
       \/ (v = "climbing" /\ new.isGameOver # old.isGameOver)
    THEN Snapshot(v, new)
    ELSE h

\* ----------------------------------------------------- state update engine
\* a resting x that forgets the viewport: the left one for both walls
RestX_LeftOnly(v, onLeft, prev, W) == prev.wallWidth + Margin(v)

\* the resting x of a wall: prev.wallWidth + 10 on the left,
\* window.innerWidth - prev.wallWidth - 10 - prev.playerSize on the right
RestX(v, onLeft, prev, W) ==
    IF onLeft
    THEN prev.wallWidth + Margin(v)
    ELSE W - prev.wallWidth - Margin(v) - prev.playerSize

\* a climb that pauses while the player is in the air
NewY_RestingOnly(v, prev, deltaTime, H) ==
    CASE v = "brisk" -> H \div 2 - prev.playerSize \div 2
      [] v = "controlled" -> (H * 7) \div 10 - prev.playerSize \div 2
      [] OTHER -> IF prev.isJumping
                  THEN prev.playerY
                  ELSE prev.playerY - (prev.speed * deltaTime) \div MsPerSecond

\* let newY
NewY(v, prev, deltaTime, H) ==
    CASE v = "brisk" -> H \div 2 - prev.playerSize \div 2
      [] v = "controlled" -> (H * 7) \div 10 - prev.playerSize \div 2
      [] OTHER -> prev.playerY - (prev.speed * deltaTime) \div MsPerSecond

\* newJumpProgress after "Handle jumping animation"
NewJumpProgress(v, prev, deltaTime) ==
    IF prev.isJumping
    THEN prev.jumpProgress + JumpAdvance(v, deltaTime)
    ELSE prev.jumpProgress

\* isReturningToSameWall && prev.jumpProgress === 0 (side-to-side variants)
IsReturnJump(v, prev, W) ==
    /\ v \in SideToSide
    /\ InBand(prev.playerX, prev.playerSize, W, LoopLineWidth)
    /\ prev.jumpProgress = 0

\* newIsJumping
NewIsJumping(v, prev, deltaTime) ==
    prev.isJumping /\ NewJumpProgress(v, prev, deltaTime) < MsPerSecond

\* newIsOnLeftWall
NewIsOnLeftWall(v, prev, deltaTime, W) ==
    IF prev.isJumping /\ NewJumpProgress(v, prev, deltaTime) >= MsPerSecond
    THEN IF IsReturnJump(v, prev, W) THEN prev.isOnLeftWall
                                     ELSE ~prev.isOnLeftWall
    ELSE prev.isOnLeftWall

\* newX
NewX(v, prev, deltaTime, W) ==
    IF prev.isJumping
    THEN IF NewJumpProgress(v, prev, deltaTime) >= MsPerSecond
         THEN RestX(v, NewIsOnLeftWall(v, prev, deltaTime, W), prev, W)
         ELSE LET startX == RestX(v, prev.isOnLeftWall, prev, W)
                  endX == IF IsReturnJump(v, prev, W)
                          THEN startX
                          ELSE RestX(v, ~prev.isOnLeftWall, prev, W)
              IN  startX + ((endX - startX) * NewJumpProgress(v, prev, deltaTime))
                              \div MsPerSecond
    ELSE RestX(v, prev.isOnLeftWall, prev, W)

\* timeElapsed overwritten with deltaTime instead of advanced by it
NewTimeElapsed_Overwrite(prev, deltaTime) == deltaTime

\* const newTimeElapsed = prev.timeElapsed + deltaTime
NewTimeElapsed(prev, deltaTime) == prev.timeElapsed + deltaTime

Max(a, b) == IF a >= b THEN a ELSE b

\* the spawn interval without its floor
obstacleSpawnRate_NoFloor(newTimeElapsed) ==
    baseSpawnRate - newTimeElapsed \div 10

\* Math.max(minSpawnRate, baseSpawnRate - newTimeElapsed * timeSpeedupFactor)
obstacleSpawnRate(newTimeElapsed) ==
    Max(minSpawnRate, baseSpawnRate - newTimeElapsed \div 10)

\* a spawn gate that is always open
SpawnDue_EveryTick(prev, newTimeElapsed) == TRUE

\* a spawn gate that opens when the interval has just been reached
SpawnDue_AtInterval(prev, newTimeElapsed) ==
    newTimeElapsed - prev.lastObstacleTime >= obstacleSpawnRate(newTimeElapsed)

\* newTimeElapsed - prev.lastObstacleTime > obstacleSpawnRate
SpawnDue(prev, newTimeElapsed) ==
    newTimeElapsed - prev.lastObstacleTime > obstacleSpawnRate(newTimeElapsed)

obstacleWidth(v, prev) == IF v = "brisk" THEN 80 ELSE prev.wallWidth

newObstacle(v, prev, W, spawnOnLeft) ==
    [ x |-> IF spawnOnLeft THEN 0 ELSE W - obstacleWidth(v, prev),
      y |-> 0 - obstacleHeight,
      width |-> obstacleWidth(v, prev),
      height |-> obstacleHeight,
      isOnLeftWall |-> spawnOnLeft ]

\* a push on every tick, due or not
Spawned_Always(v, prev, newTimeElapsed, W, spawnOnLeft) ==
    Append(prev.obstacles, newObstacle(v, prev, W, spawnOnLeft))

\* newObstacles after the push
Spawned(v, prev, newTimeElapsed, W, spawnOnLeft) ==
    IF SpawnDue(prev, newTimeElapsed)
    THEN Append(prev.obstacles, newObstacle(v, prev, W, spawnOnLeft))
    ELSE prev.obstacles

\* .map((obstacle) => ({...obstacle, y: obstacle.y + obstacleSpeed * deltaTime}))
Advance(obstacles, deltaTime) ==
    [ i \in 1..Len(obstacles) |->
        [ obstacles[i] EXCEPT !.y = @ + (obstacleSpeed * deltaTime) \div MsPerSecond ] ]

\* a filter that keeps every obstacle
OnScreen_Always(obstacle, H) == TRUE

\* the filter's test: obstacle.y < window.innerHeight + 100
OnScreen(obstacle, H) == obstacle.y < H + 100

\* .filter((obstacle) => obstacle.y < window.innerHeight + 100)
Cull(obstacles, H) == SelectSeq(obstacles, LAMBDA o : OnScreen(o, H))

\* the strict test of part_000
OverlapStrict(px, py, size, o) ==
    /\ px < o.x + o.width
    /\ px + size > o.x
    /\ py < o.y + o.height
    /\ py + size > o.y

\* the inclusive test of part_001
OverlapInclusive(px, py, size, o) ==
    /\ px + size >= o.x
    /\ px <= o.x + o.width
    /\ py + size >= o.y
    /\ py <= o.y + o.height

\* a collision check that forgets the right wall in playerOnSameWall
Hits_LeftWallOnly(v, prev, px, py, o) ==
    IF v = "brisk"
    THEN /\ prev.isOnLeftWall /\ o.isOnLeftWall
         /\ ~prev.isJumping
         /\ px < o.x + o.width
         /\ px + prev.playerSize > o.x
         /\ py < o.y + o.height
         /\ py + prev.playerSize > o.y
    ELSE /\ px + prev.playerSize >= o.x
         /\ px <= o.x + o.width
         /\ py + prev.playerSize >= o.y
         /\ py <= o.y + o.height

\* a collision check that also runs while the player is in the air
Hits_InTheAir(v, prev, px, py, o) ==
    IF v = "brisk"
    THEN /\ prev.isOnLeftWall = o.isOnLeftWall
         /\ OverlapStrict(px, py, prev.playerSize, o)
    ELSE OverlapInclusive(px, py, prev.playerSize, o)

\* does the loop body set isGameOver for this obstacle
Hits(v, prev, px, py, o) ==
    IF v = "brisk"
    THEN /\ prev.isOnLeftWall = o.isOnLeftWall
         /\ ~prev.isJumping
         /\ OverlapStrict(px, py, prev.playerSize, o)
    ELSE OverlapInclusive(px, py, prev.playerSize, o)

\* a boundary check that spares a player in the air
NewIsGameOver_RestingOnly(v, prev, px, py, obstacles) ==
    IF v = "climbing"
    THEN py <= 0 /\ ~prev.isJumping
    ELSE \E i \in 1..Len(obstacles) : Hits(v, prev, px, py, obstacles[i])

\* isGameOver of the returned state
NewIsGameOver(v, prev, px, py, obstacles) ==
    IF v = "climbing"
    THEN py <= 0
    ELSE \E i \in 1..Len(obstacles) : Hits(v, prev, px, py, obstacles[i])

\* an updater without the game-over guard
Frozen_Never(prev) == FALSE

\* if (prev.isGameOver) return prev
Frozen(prev) == prev.isGameOver

\* the whole updater passed to setGameState by gameLoop
Update(v, prev, deltaTime, W, H, spawnOnLeft) ==
    IF Frozen(prev) THEN prev
    ELSE
    LET newY == NewY(v, prev, deltaTime, H)
        newX == NewX(v, prev, deltaTime, W)
        newTimeElapsed == NewTimeElapsed(prev, deltaTime)
        newObstacles ==
            IF v = "climbing" THEN prev.obstacles
            ELSE Cull(Advance(Spawned(v, prev, newTimeElapsed, W, spawnOnLeft),
                              deltaTime), H)
    IN  [ prev EXCEPT
            !.playerX = newX,
            !.playerY = newY,
            !.isOnLeftWall = NewIsOnLeftWall(v, prev, deltaTime, W),
            !.isJumping = NewIsJumping(v, prev, deltaTime),
            !.jumpProgress = NewJumpProgress(v, prev, deltaTime),
            !.timeElapsed = newTimeElapsed,
            !.obstacles = newObstacles,
            !.lastObstacleTime =
                IF v # "climbing" /\ SpawnDue(prev, newTimeElapsed)
                THEN newTimeElapsed ELSE prev.lastObstacleTime,
            !.isGameOver = NewIsGameOver(v, prev, newX, newY, newObstacles) ]

\* ------------------------------------------------------------------ system
\* The state of a freshly mounted component: the state of useState, the
\* input effect registered, the loop effect having requested the first frame.
Mounted(first) ==
    /\ variant \in Variants
    /\ innerWidth \in Widths
    /\ innerHeight \in Heights
    /\ gameState = InitialState(variant, innerHeight)
    /\ previousTimeRef = Undefined
    /\ handlerState = Snapshot(variant, gameState)
    /\ firstFrameTime \in first
    /\ mounted = TRUE
    /\ pendingFrames = 1
    /\ requestRef = "pending"
    /\ returnRequested = FALSE
    /\ resizes = 0
    /\ sinceOver = {}

Init ==
    /\ Mounted(FirstTimes)
    /\ lastEvent = LogOff
    /\ probe = NoProbe

\* History: the kinds of event delivered since isGameOver became true.
Since(kind) == IF gameState.isGameOver THEN sinceOver \cup {kind} ELSE {}

\* History: the last input event and the command it was routed to, kept
\* only in the runs that start with the log switched on.
Log(entry) == IF lastEvent = LogOff THEN LogOff ELSE entry

\* setGameState(next) followed by the re-render and the input effect
SetGameState(next) ==
    /\ gameState' = next
    /\ handlerState' = Rebind(variant, gameState, next, handlerState)

\* deltaTime of gameLoop(time), in ms
DeltaTime_FromZero(time, previous) ==
    IF previous = Undefined THEN time ELSE time - previous

DeltaTime(time, previous) ==
    IF previous = Undefined THEN 0 ELSE time - previous

\* requestRef.current = requestAnimationFrame(gameLoop) at the end of
\* gameLoop: does the callback request the next frame from this state
Reschedules_WhileRunning(state) == ~state.isGameOver

Reschedules(state) == TRUE

\* cancelAnimationFrame(requestRef.current) in the cleanup of the loop
\* effect: the number of callbacks still pending
AfterCancel(ref, pending) == IF ref = "pending" THEN pending - 1 ELSE pending

\* gameLoop(time): one animation frame
GameLoop(time, spawnOnLeft) ==
    /\ pendingFrames > 0
    /\ SetGameState(Update(variant, gameState, DeltaTime(time, previousTimeRef),
                           innerWidth, innerHeight, spawnOnLeft))
    /\ previousTimeRef' = time
    /\ IF Reschedules(gameState)
       THEN pendingFrames' = pendingFrames /\ requestRef' = "pending"
       ELSE pendingFrames' = pendingFrames - 1 /\ requestRef' = "stale"
    /\ sinceOver' = Since("frame")
    /\ lastEvent' = Log(NoEvent)
    /\ UNCHANGED <<variant, innerWidth, innerHeight, returnRequested, resizes,
                   firstFrameTime, mounted, probe>>

\* the timestamps requestAnimationFrame may pass to the next callback
NextTimes ==
    IF previousTimeRef = Undefined
    THEN {firstFrameTime}
    ELSE { previousTimeRef + d : d \in DeltaTimes }

Frame ==
    \E time \in NextTimes, spawnOnLeft \in BOOLEAN :
        /\ time <= MaxTime
        /\ GameLoop(time, spawnOnLeft)

\* restartGame()
restartGame ==
    /\ SetGameState(RestartState(variant, innerHeight))
    /\ returnRequested' = FALSE
    /\ sinceOver' = {}

\* the "Play Again" button of GameOverModal, rendered while isGameOver
PlayAgain ==
    /\ mounted
    /\ gameState.isGameOver
    /\ restartGame
    /\ lastEvent' = Log(NoEvent)
    /\ UNCHANGED <<variant, innerWidth, innerHeight, previousTimeRef, resizes,
                   firstFrameTime, mounted, pendingFrames, requestRef, probe>>

\* what handleKeyDown does with a Space press, given the gameState h its
\* closure holds
KeyCommand(v, h, W) ==
    IF v = "climbing"
    THEN IF ~h.isJumping /\ ~h.isGameOver THEN "jump"
         ELSE IF h.isGameOver THEN "restart" ELSE "none"
    ELSE IF ~h.isJumping THEN "jump"
         ELSE IF InBand(h.playerX, h.playerSize, W, KeyLineWidth(v))
              THEN "return" ELSE "none"

\* a click that starts a jump even during a jump
ClickCommand_Rejump(v, h) ==
    IF v = "climbing" /\ h.isGameOver THEN "restart" ELSE "jump"

\* what handleClick does
ClickCommand(v, h) ==
    IF v = "climbing"
    THEN IF ~h.isJumping /\ ~h.isGameOver THEN "jump"
         ELSE IF h.isGameOver THEN "restart" ELSE "none"
    ELSE IF ~h.isJumping THEN "jump" ELSE "none"

\* a listener of the input effect runs for an event
Dispatch(event, command) ==
    /\ mounted
    /\ CASE command = "jump" ->
              /\ SetGameState(jump(gameState))
              /\ returnRequested' = FALSE
              /\ sinceOver' = Since("input")
         [] command = "return" ->
              /\ SetGameState(returnToSameWall(gameState))
              /\ returnRequested' = TRUE
              /\ sinceOver' = Since("input")
         [] command = "restart" -> restartGame
         [] OTHER ->
              /\ UNCHANGED <<gameState, handlerState, returnRequested>>
              /\ sinceOver' = Since("input")
    /\ lastEvent' = Log([event |-> event, command |-> command])
    /\ UNCHANGED <<variant, innerWidth, innerHeight, previousTimeRef, resizes,
                   firstFrameTime, mounted, pendingFrames, requestRef, probe>>

\* handleKeyDown with e.code === "Space"
handleKeyDown ==
    Dispatch("keydown", KeyCommand(variant, handlerState, innerWidth))

\* handleClick, registered for "click" and "touchstart"
handleClick ==
    \E event \in {"click", "touchstart"} :
        Dispatch(event, ClickCommand(variant, handlerState))

\* the user resizes the window
Resize ==
    /\ resizes < MaxResizes
    /\ resizes' = resizes + 1
    /\ \E w \in Widths, h \in Heights :
          /\ <<w, h>> # <<innerWidth, innerHeight>>
          /\ innerWidth' = w
          /\ innerHeight' = h
    /\ lastEvent' = Log(NoEvent)
    /\ UNCHANGED <<variant, gameState, previousTimeRef, handlerState,
                   returnRequested, sinceOver, firstFrameTime, mounted,
                   pendingFrames, requestRef, probe>>

\* the component unmounts: the cleanups of the two effects run
Unmount ==
    /\ mounted
    /\ mounted' = FALSE
    /\ pendingFrames' = AfterCancel(requestRef, pendingFrames)
    /\ requestRef' = "stale"
    /\ lastEvent' = Log(NoEvent)
    /\ UNCHANGED <<variant, gameState, innerWidth, innerHeight, previousTimeRef,
                   handlerState, returnRequested, resizes, sinceOver,
                   firstFrameTime, probe>>

Next ==
    \/ Frame
    \/ PlayAgain
    \/ handleKeyDown
    \/ handleClick
    \/ Resize

Spec == Init /\ [][Next]_vars

\* The same component with the routing of every input event logged.
InitInput ==
    /\ Mounted(FirstTimes)
    /\ lastEvent = NoEvent
    /\ probe = NoProbe

SpecInput == InitInput /\ [][Next]_vars

\* The same component under several first-frame timestamps.
InitClock ==
    /\ Mounted(ClockFirstTimes)
    /\ lastEvent = LogOff
    /\ probe = NoProbe

SpecClock == InitClock /\ [][Next]_vars

\* The same component in a viewport that stays as it is, and which may
\* also unmount.
NextDriver ==
    \/ Frame
    \/ PlayAgain
    \/ handleKeyDown
    \/ handleClick
    \/ Unmount

SpecDriver == Init /\ [][NextDriver]_vars

\* The spawn interval on its own, probed at arbitrary elapsed times.
InitRate ==
    /\ Mounted(FirstTimes)
    /\ lastEvent = LogOff
    /\ probe \in { [ t |-> t, rate |-> 0 ] : t \in ProbeTimes }

ProbeRate ==
    /\ \E t \in ProbeTimes : probe' = [ t |-> t, rate |-> obstacleSpawnRate(t) ]
    /\ UNCHANGED <<variant, gameState, innerWidth, innerHeight, previousTimeRef,
                   handlerState, returnRequested, resizes, sinceOver,
                   firstFrameTime, mounted, pendingFrames, requestRef, lastEvent>>

NextRate == ProbeRate

SpecRate == InitRate /\ [][NextRate]_vars

\* A side-to-side run picked up late, when the spawn interval is near or
\* at its floor: the player has stayed on the left wall, the last frame
\* was long enough to clear the obstacle list, and frames of any length
\* follow.
InitSpawn ==
    /\ variant \in SideToSide
    /\ innerWidth \in Widths
    /\ innerHeight \in Heights
    /\ firstFrameTime \in FirstTimes
    /\ \E start \in SpawnStarts, back \in SpawnBacks :
          /\ gameState = [ InitialState(variant, innerHeight) EXCEPT
                             !.timeElapsed = start,
                             !.lastObstacleTime = start - back ]
          /\ previousTimeRef = firstFrameTime + start
    /\ handlerState = Snapshot(variant, gameState)
    /\ mounted = TRUE
    /\ pendingFrames = 1
    /\ requestRef = "pending"
    /\ returnRequested = FALSE
    /\ resizes = 0
    /\ sinceOver = {}
    /\ lastEvent = LogOff
    /\ probe = NoProbe

LongFrame ==
    \E deltaTime \in LongDeltas, spawnOnLeft \in BOOLEAN :
        /\ previousTimeRef + deltaTime <=
              firstFrameTime + SpawnStarts_Last + MaxSpawnSpan
        /\ GameLoop(previousTimeRef + deltaTime, spawnOnLeft)

NextSpawn == LongFrame

SpecSpawn == InitSpawn /\ [][NextSpawn]_vars

\* The climbing variant while the page is visible: the browser keeps
\* running the requested frame callback.
InitLive == Init /\ variant = "climbing"

SpecLive == InitLive /\ [][Next]_vars /\ WF_vars(Frame)

\* ------------------------------------------------------------ properties
\* A step is a frame exactly when it moves previousTimeRef.
IsFrame == previousTimeRef' # previousTimeRef

\* deltaTime of the frame taken by a step
StepDelta ==
    IF previousTimeRef = Undefined THEN 0 ELSE previousTimeRef' - previousTimeRef

\* two axis-aligned boxes share an area
BoxesOverlap(ax, ay, aw, ah, bx, by, bw, bh) ==
    /\ ax < bx + bw
    /\ bx < ax + aw
    /\ ay < by + bh
    /\ by < ay + ah

\* two axis-aligned boxes share a point
BoxesMeet(ax, ay, aw, ah, bx, by, bw, bh) ==
    /\ ax <= bx + bw
    /\ bx <= ax + aw
    /\ ay <= by + bh
    /\ by <= ay + ah

\* the step delivers a primary action: Space, a click or a touch start
IsPrimaryAction == lastEvent'.event \in {"keydown", "click", "touchstart"}

\* the step delivers a click or a touch start
IsPointerAction == lastEvent'.event \in {"click", "touchstart"}

\* the resting x of a wall in state s and a viewport W wide, as the
\* specification words it
RestingX(s, onLeft, W) ==
    LET margin == IF variant = "controlled" THEN 0 ELSE 10
    IN  IF onLeft
        THEN s.wallWidth + margin
        ELSE W - s.wallWidth - margin - s.playerSize

PlayerOverlaps(s, o) ==
    BoxesOverlap(s.playerX, s.playerY, s.playerSize, s.playerSize,
                 o.x, o.y, o.width, o.height)

PlayerMeets(s, o) ==
    BoxesMeet(s.playerX, s.playerY, s.playerSize, s.playerSize,
              o.x, o.y, o.width, o.height)

Obstacles(s) == { s.obstacles[i] : i \in 1..Len(s.obstacles) }

\* C1: a frame applied to a state whose isGameOver is true leaves every
\* field of the state as it was.
C1_FrameAfterGameOverIsIdentity ==
    [][ (IsFrame /\ gameState.isGameOver) => gameState' = gameState ]_vars

C1_Witness ==
    /\ gameState.isGameOver
    /\ "frame" \in sinceOver
    /\ Len(gameState.obstacles) > 0

\* C2: from a game-over state, every step other than a restart keeps
\* isGameOver true and keeps timeElapsed and obstacles.
C2_GameOverFreezes ==
    [][ (gameState.isGameOver /\ ~restartGame) =>
           /\ gameState'.isGameOver
           /\ gameState'.timeElapsed = gameState.timeElapsed
           /\ gameState'.obstacles = gameState.obstacles ]_vars

C2_Witness ==
    /\ gameState.isGameOver
    /\ sinceOver = {"frame", "input"}
    /\ gameState.isJumping

\* C3 as stated: every frame on a running state strictly increases
\* timeElapsed, by exactly deltaTime, for every deltaTime >= 0.
C3_StrictlyIncreases ==
    [][ (IsFrame /\ ~gameState.isGameOver) =>
           /\ gameState'.timeElapsed > gameState.timeElapsed
           /\ gameState'.timeElapsed = gameState.timeElapsed + StepDelta ]_vars

\* C3 as amended: every frame on a running state adds exactly deltaTime to
\* timeElapsed, also on the frame that sets isGameOver; timeElapsed grows
\* strictly when deltaTime > 0 and stays when deltaTime = 0.
C3_AddsDelta ==
    [][ (IsFrame /\ ~gameState.isGameOver) =>
           /\ gameState'.timeElapsed = gameState.timeElapsed + StepDelta
           /\ (StepDelta > 0 => gameState'.timeElapsed > gameState.timeElapsed)
           /\ (StepDelta = 0 => gameState'.timeElapsed = gameState.timeElapsed) ]_vars

C3_Witness ==
    /\ gameState.isGameOver
    /\ sinceOver = {}
    /\ gameState.timeElapsed > 0
    /\ previousTimeRef # Undefined

\* C4: restartGame installs the state the component was created with.
C4_RestartRestoresInitialState ==
    [][ restartGame => gameState' = InitialState(variant, innerHeight) ]_vars

\* C5: in the side-to-side variants a jump from the left wall with no
\* same-wall return requested ends on the right wall, at its resting x.
C5_FreshJumpLandsOnRightWall ==
    [][ ( /\ IsFrame
          /\ variant \in SideToSide
          /\ ~gameState.isGameOver
          /\ gameState.isJumping
          /\ gameState.isOnLeftWall
          /\ ~returnRequested
          /\ gameState.jumpProgress + JumpAdvance(variant, StepDelta) >= MsPerSecond )
        => /\ ~gameState'.isJumping
           /\ ~gameState'.isOnLeftWall
           /\ gameState'.playerX =
                innerWidth - gameState.wallWidth - Margin(variant) - gameState.playerSize
      ]_vars

\* C6: a jump during which returnToSameWall ran ends on the wall it started
\* from, at that wall's resting x.
C6_ReturnJumpKeepsWall ==
    [][ ( /\ IsFrame
          /\ variant \in SideToSide
          /\ ~gameState.isGameOver
          /\ gameState.isJumping
          /\ returnRequested
          /\ ~gameState'.isJumping )
        => /\ gameState'.isOnLeftWall = gameState.isOnLeftWall
           /\ gameState'.playerX =
                RestX(variant, gameState.isOnLeftWall, gameState, innerWidth)
      ]_vars

\* C7: in the side-to-side variants, a frame that starts running and at
\* rest and leaves an obstacle of the player's wall overlapping the
\* player's box ends the run.
C7_OverlapEndsRun ==
    [][ ( /\ IsFrame
          /\ variant \in SideToSide
          /\ ~gameState.isGameOver
          /\ ~gameState.isJumping
          /\ \E o \in Obstacles(gameState') :
                /\ o.isOnLeftWall = gameState'.isOnLeftWall
                /\ PlayerOverlaps(gameState', o) )
        => gameState'.isGameOver ]_vars

C7_Witness ==
    /\ variant \in SideToSide
    /\ gameState.isGameOver
    /\ sinceOver = {}
    /\ ~gameState.isJumping
    /\ \E o \in Obstacles(gameState) :
          /\ o.isOnLeftWall = gameState.isOnLeftWall
          /\ PlayerOverlaps(gameState, o)

\* C8: in the side-to-side variants a resting player's run is ended only
\* by an obstacle of the player's own wall.
C8_OnlyOwnWallEndsRun ==
    [][ ( /\ IsFrame
          /\ variant \in SideToSide
          /\ ~gameState.isGameOver
          /\ ~gameState.isJumping
          /\ gameState'.isGameOver )
        => \E o \in Obstacles(gameState') :
              /\ o.isOnLeftWall = gameState'.isOnLeftWall
              /\ PlayerMeets(gameState', o) ]_vars

\* C9: in the variants with obstacles, a frame that leaves an obstacle the
\* variant checks (any obstacle in the controlled variant; an obstacle of
\* the player's wall, the player at rest, in the brisk variant) touching
\* the player's box ends the run, also when they share only an edge.
C9_EdgeTouchEndsRun ==
    [][ ( /\ IsFrame
          /\ variant \in SideToSide
          /\ ~gameState.isGameOver
          /\ \E o \in Obstacles(gameState') :
                /\ PlayerMeets(gameState', o)
                /\ ~PlayerOverlaps(gameState', o)
                /\ (variant = "brisk" =>
                      /\ ~gameState.isJumping
                      /\ o.isOnLeftWall = gameState.isOnLeftWall) )
        => gameState'.isGameOver ]_vars

\* C10: after a frame on a running state no obstacle is lower than
\* innerHeight + 100; each obstacle advanced beyond that line is gone and
\* each obstacle advanced to above it is kept.
C10_Culled ==
    [][ (IsFrame /\ ~gameState.isGameOver /\ variant \in SideToSide) =>
          LET fall == (obstacleSpeed * StepDelta) \div MsPerSecond
              line == innerHeight + 100
              old == gameState.obstacles
              new == gameState'.obstacles
              kept == { i \in 1..Len(old) : old[i].y + fall < line }
              gone == { i \in 1..Len(old) : old[i].y + fall > line }
          IN  /\ \A o \in Obstacles(gameState') : o.y <= line
              /\ \A i \in kept : [ old[i] EXCEPT !.y = @ + fall ] \in Obstacles(gameState')
              /\ \A i \in gone : [ old[i] EXCEPT !.y = @ + fall ] \notin Obstacles(gameState')
              /\ Len(new) \in { Cardinality(kept), Cardinality(kept) + 1 } ]_vars

C10_Witness ==
    /\ ~gameState.isGameOver
    /\ gameState.obstacles = << >>
    /\ gameState.lastObstacleTime > 0

\* C11: the spawn interval is max(0.3, 1.5 - 0.1 * elapsed) seconds: it is
\* 1.5 s at elapsed time 0, falls by 0.1 s per second of play up to 12 s,
\* is 0.3 s from 12 s on, never below 0.3 s, and a later elapsed time
\* never gives a longer interval.
C11_SpawnRate ==
    [][ LET t == probe'.t
            r == probe'.rate
        IN  /\ r >= 300
            /\ (t = 0 => r = 1500)
            /\ (t <= 12000 => 10 * r = 15000 - t)
            /\ (t >= 12000 => r = 300)
            /\ (probe.rate # 0 /\ t >= probe.t => r <= probe.rate)
            /\ (probe.rate # 0 /\ t <= probe.t => r >= probe.rate) ]_probe

C11_Witness == probe.t > 12000 /\ probe.rate = 300

\* C12: the first frame callback runs the update with deltaTime exactly 0
\* whatever its timestamp; every later callback runs it with the
\* difference of its timestamp and the previous one; so the time a run
\* has accumulated never exceeds the time since the first callback.
C12_FirstDeltaIsZero ==
    /\ [][ (IsFrame /\ ~gameState.isGameOver) =>
             gameState'.timeElapsed - gameState.timeElapsed =
                IF previousTimeRef = Undefined
                THEN 0
                ELSE previousTimeRef' - previousTimeRef ]_vars
    /\ [](previousTimeRef # Undefined =>
             gameState.timeElapsed <= previousTimeRef - firstFrameTime)

C12_Witness ==
    /\ firstFrameTime > 1000
    /\ previousTimeRef > firstFrameTime
    /\ gameState.timeElapsed = previousTimeRef - firstFrameTime

\* C13: every frame callback, whether or not the game is over, leaves
\* exactly one next callback requested; never more than one is pending;
\* once the teardown has cancelled the pending request no callback runs
\* and the game state is never updated again.
C13_OneFramePending ==
    /\ [](pendingFrames = IF mounted THEN 1 ELSE 0)
    /\ [][ IsFrame => (pendingFrames' = 1 /\ requestRef' = "pending") ]_vars
    /\ [][ ~mounted => (gameState' = gameState /\
                        previousTimeRef' = previousTimeRef) ]_vars

C13_Witness ==
    /\ ~mounted
    /\ gameState.isGameOver
    /\ "frame" \in sinceOver
    /\ pendingFrames = 0

\* C14 as stated: a primary action received while not jumping starts a
\* jump and changes nothing else; a click or touch start received while
\* jumping leaves the whole state unchanged.
C14_PrimaryActionStartsJump ==
    [][ /\ (IsPrimaryAction /\ ~gameState.isJumping) =>
              gameState' = [ gameState EXCEPT !.isJumping = TRUE,
                                              !.jumpProgress = 0 ]
        /\ (IsPointerAction /\ gameState.isJumping) =>
              gameState' = gameState ]_vars

\* C14, amended: the same, except that in the climbing variant a primary
\* action received while the game is over is a restart.
C14_PrimaryActionStartsJumpUnlessRestart ==
    [][ (variant = "climbing" /\ gameState.isGameOver) \/
        ( /\ (IsPrimaryAction /\ ~gameState.isJumping) =>
                gameState' = [ gameState EXCEPT !.isJumping = TRUE,
                                                !.jumpProgress = 0 ]
          /\ (IsPointerAction /\ gameState.isJumping) =>
                gameState' = gameState ) ]_vars

C14_Witness ==
    /\ lastEvent = [ event |-> "touchstart", command |-> "none" ]
    /\ gameState.isJumping
    /\ gameState.jumpProgress > 0
    /\ ~gameState.isGameOver

\* C15: in the side-to-side variants a Space press received during a jump
\* is accepted as a return to the same wall only if the player's
\* horizontal centre, at the time of the event, lies within the band
\* around the middle of the viewport; a press received while the centre
\* is outside the band leaves the state unchanged.
C15_ReturnOnlyInsideBand ==
    [][ ( /\ lastEvent'.event = "keydown"
          /\ variant \in SideToSide
          /\ gameState.isJumping
          /\ ~InBand(gameState.playerX, gameState.playerSize, innerWidth,
                     KeyLineWidth(variant)) ) =>
        ( /\ lastEvent'.command = "none"
          /\ gameState' = gameState
          /\ returnRequested' = returnRequested ) ]_vars

\* C16: in the climbing variant a primary action received while the game
\* is over never starts a jump but restarts the game (gameOver false,
\* jumping false, elapsedTime 0, the player at the initial position); a
\* primary action received while the game is not over never restarts.
C16_ActionRestartsOnlyWhenOver ==
    [][ (IsPrimaryAction /\ variant = "climbing") =>
        IF gameState.isGameOver
        THEN /\ lastEvent'.command = "restart"
             /\ ~gameState'.isGameOver
             /\ ~gameState'.isJumping
             /\ gameState'.jumpProgress = 0
             /\ gameState'.timeElapsed = 0
             /\ gameState'.isOnLeftWall
             /\ gameState'.playerX = 50
             /\ gameState'.playerY = innerHeight - 200
        ELSE /\ lastEvent'.command # "restart"
             /\ gameState'.timeElapsed = gameState.timeElapsed
             /\ gameState'.playerY = gameState.playerY
             /\ gameState'.playerX = gameState.playerX
             /\ gameState'.isOnLeftWall = gameState.isOnLeftWall
             /\ ~gameState'.isGameOver ]_vars

C16_Witness ==
    /\ variant = "climbing"
    /\ lastEvent = [ event |-> "keydown", command |-> "restart" ]
    /\ ~gameState.isGameOver
    /\ gameState.timeElapsed = 0
    /\ previousTimeRef # Undefined

\* C17: in every reachable state of every variant jumpProgress lies in
\* [0, 1], also on the tick that resolves a jump.
C17_JumpProgressInUnitInterval ==
    /\ gameState.jumpProgress >= 0
    /\ gameState.jumpProgress <= MsPerSecond

\* C18: in the side-to-side variants, a frame on which a jump resolves and
\* which leaves an obstacle of the wall the player lands on overlapping
\* the player's resolved box ends the run on that same frame.
C18_LandingOnObstacleEndsRun ==
    [][ ( /\ IsFrame
          /\ variant \in SideToSide
          /\ ~gameState.isGameOver
          /\ gameState.isJumping
          /\ ~gameState'.isJumping
          /\ \E o \in Obstacles(gameState') :
                /\ o.isOnLeftWall = gameState'.isOnLeftWall
                /\ PlayerOverlaps(gameState', o) )
        => gameState'.isGameOver ]_vars

\* C20: in the side-to-side variants, a frame applied to a state that is
\* not game over appends exactly one obstacle if the new elapsed time
\* minus lastObstacleTime exceeds the spawn interval, and then sets
\* lastObstacleTime to the new elapsed time; otherwise it appends none
\* and keeps lastObstacleTime; however long the frame, no more than one
\* obstacle is appended; lastObstacleTime never exceeds timeElapsed.
C20_SpawnsAtMostOne ==
    /\ [](gameState.lastObstacleTime <= gameState.timeElapsed)
    /\ [][ (IsFrame /\ variant \in SideToSide /\ ~gameState.isGameOver) =>
           LET now == gameState'.timeElapsed
               fall == (now - gameState.timeElapsed) \div 5
               due == 10 * (now - gameState.lastObstacleTime) >
                         (IF 15000 - now > 3000 THEN 15000 - now ELSE 3000)
               old == gameState.obstacles
               kept == SelectSeq([ i \in 1..Len(old) |->
                                     [ old[i] EXCEPT !.y = @ + fall ] ],
                                 LAMBDA o : o.y < innerHeight + 100)
               new == gameState'.obstacles
           IN  IF due
               THEN /\ Len(new) = Len(kept) + 1
                    /\ SubSeq(new, 1, Len(kept)) = kept
                    /\ new[Len(new)].y = fall - 80
                    /\ gameState'.lastObstacleTime = now
               ELSE /\ new = kept
                    /\ gameState'.lastObstacleTime = gameState.lastObstacleTime
         ]_vars

C20_Witness ==
    /\ gameState.timeElapsed >= 13000
    /\ gameState.lastObstacleTime = gameState.timeElapsed
    /\ Len(gameState.obstacles) = 1
    /\ gameState.obstacles[1].y = 120

\* C21: between two consecutive spawns of a run the elapsed time advances
\* by more than the spawn interval in force at the later spawn, hence by
\* more than 0.3 s.
C21_SpawnsFartherApartThanInterval ==
    [][ ( /\ IsFrame
          /\ variant \in SideToSide
          /\ ~gameState.isGameOver
          /\ gameState.lastObstacleTime > 0
          /\ gameState'.lastObstacleTime # gameState.lastObstacleTime ) =>
        LET gap == gameState'.timeElapsed - gameState.lastObstacleTime
        IN  /\ gameState'.lastObstacleTime = gameState'.timeElapsed
            /\ 10 * gap > 15000 - gameState'.timeElapsed
            /\ gap > 300 ]_vars

C21_Witness ==
    /\ Len(gameState.obstacles) >= 2
    /\ gameState.lastObstacleTime = gameState.timeElapsed
    /\ gameState.obstacles[Len(gameState.obstacles)].y -
          gameState.obstacles[Len(gameState.obstacles) - 1].y = 0 - 80

\* C22: a frame applied to a state that is not game over and leaving
\* isJumping false (a resting frame or the frame that resolves a jump)
\* leaves playerX at the resting x of the wall named by the new
\* isOnLeftWall, computed from the viewport width of that frame.
C22_RestingXFollowsViewport ==
    [][ (IsFrame /\ ~gameState.isGameOver /\ ~gameState'.isJumping) =>
        gameState'.playerX =
            RestingX(gameState', gameState'.isOnLeftWall, innerWidth) ]_vars

C22_Witness ==
    /\ resizes = 1
    /\ ~gameState.isGameOver
    /\ ~gameState.isJumping
    /\ ~gameState.isOnLeftWall
    /\ gameState.playerX = RestingX(gameState, FALSE, innerWidth)

\* C23: on a frame where the player is jumping and the advanced
\* jumpProgress is below 1, isOnLeftWall and isJumping are unchanged and
\* playerX is startX + (endX - startX) * jumpProgress, startX the resting
\* x of the wall the jump started from and endX the resting x of the wall
\* the jump resolves to: so when a frame resolves a jump, the x the
\* frame before it had interpolated lies on the line from the start wall
\* to the wall resolved to (the viewport having stayed the same).
C23_InterpolatesTowardsLandingWall ==
    /\ [][ ( /\ IsFrame
             /\ ~gameState.isGameOver
             /\ gameState.isJumping
             /\ gameState'.isJumping ) =>
           /\ gameState'.isOnLeftWall = gameState.isOnLeftWall
           /\ gameState'.jumpProgress < MsPerSecond
           /\ \E endOnLeft \in BOOLEAN :
                LET startX == RestingX(gameState, gameState.isOnLeftWall, innerWidth)
                    endX == RestingX(gameState, endOnLeft, innerWidth)
                IN  MsPerSecond * (gameState'.playerX - startX) =
                        (endX - startX) * gameState'.jumpProgress ]_vars
    /\ [][ ( /\ IsFrame
             /\ resizes = 0
             /\ ~gameState.isGameOver
             /\ gameState.isJumping
             /\ gameState.jumpProgress > 0
             /\ ~gameState'.isJumping ) =>
           LET startX == RestingX(gameState, gameState.isOnLeftWall, innerWidth)
               endX == RestingX(gameState, gameState'.isOnLeftWall, innerWidth)
           IN  MsPerSecond * (gameState.playerX - startX) =
                   (endX - startX) * gameState.jumpProgress ]_vars

\* C24 as stated: in the climbing variant every frame applied to a state
\* that is not game over sets playerY to the old playerY minus
\* speed * deltaTime, jumping or not, and sets isGameOver exactly when the
\* new playerY is <= 0; no input changes playerY.
C24_ClimbIsSteady ==
    [][ variant = "climbing" =>
        /\ (IsFrame /\ ~gameState.isGameOver) =>
              /\ 20 * gameState'.playerY = 20 * gameState.playerY - 3 * StepDelta
              /\ gameState'.isGameOver = (gameState'.playerY <= 0)
        /\ IsPrimaryAction => gameState'.playerY = gameState.playerY ]_vars

\* C24, amended: the same, for the inputs received while the game is not
\* over (an input received while it is over restarts the run).
C24_ClimbIsSteadyDuringRun ==
    [][ variant = "climbing" =>
        /\ (IsFrame /\ ~gameState.isGameOver) =>
              /\ 20 * gameState'.playerY = 20 * gameState.playerY - 3 * StepDelta
              /\ gameState'.isGameOver = (gameState'.playerY <= 0)
        /\ (IsPrimaryAction /\ ~gameState.isGameOver) =>
              gameState'.playerY = gameState.playerY ]_vars

C24_Witness ==
    /\ variant = "climbing"
    /\ gameState.isJumping
    /\ gameState.jumpProgress > 0
    /\ ~gameState.isGameOver
    /\ gameState.playerY < innerHeight - 200
    /\ gameState.playerY > 0

\* C25: in the climbing variant, with frames that keep coming, every run
\* with enough time left ends in game over whatever the inputs; game over
\* is set on the first frame at which elapsed time * speed has reached
\* the initial playerY (the viewport unchanged since the run began).
C25_ClimbAlwaysEnds ==
    /\ ( ( /\ variant = "climbing"
           /\ ~gameState.isGameOver
           /\ (previousTimeRef = Undefined \/
               previousTimeRef <= MaxTime - MaxClimb) )
         ~> gameState.isGameOver )
    /\ [][ ( /\ IsFrame
             /\ variant = "climbing"
             /\ resizes = 0
             /\ ~gameState.isGameOver ) =>
           ( gameState'.isGameOver <=>
                3 * gameState'.timeElapsed >= 20 * (innerHeight - 200) ) ]_vars

C25_Witness ==
    /\ variant = "climbing"
    /\ gameState.isGameOver
    /\ sinceOver = {}
    /\ gameState.isJumping
    /\ innerHeight = 300
    /\ resizes = 0
    /\ gameState.playerY = 0 - 5

\* C26: in the variant of part_000 no frame that starts with isJumping
\* true ends the run, neither in the air nor on the landing frame.
C26_NoGameOverFromTheAir ==
    [][ ( /\ IsFrame
          /\ variant = "brisk"
          /\ ~gameState.isGameOver
          /\ gameState.isJumping ) => ~gameState'.isGameOver ]_vars

C26_Witness ==
    /\ variant = "brisk"
    /\ ~gameState.isGameOver
    /\ gameState.isJumping
    /\ gameState.jumpProgress > 0
    /\ \E o \in Obstacles(gameState) :
          /\ o.isOnLeftWall = gameState.isOnLeftWall
          /\ PlayerOverlaps(gameState, o)

\* C27: in the side-to-side variants a primary action received while the
\* game is over and the player at rest sets isJumping and resets
\* jumpProgress to 0, changing nothing else; that jump neither advances
\* nor resolves until a restart replaces the state.
C27_JumpAfterGameOverHangs ==
    [][ (variant \in SideToSide) =>
        /\ (IsPrimaryAction /\ gameState.isGameOver /\ ~gameState.isJumping) =>
              gameState' = [ gameState EXCEPT !.isJumping = TRUE,
                                              !.jumpProgress = 0 ]
        /\ ( /\ gameState.isGameOver
             /\ gameState.isJumping
             /\ gameState.jumpProgress = 0
             /\ ~restartGame ) =>
              gameState' = gameState ]_vars

C27_Witness ==
    /\ variant = "brisk"
    /\ gameState.isGameOver
    /\ gameState.isJumping
    /\ gameState.jumpProgress = 0
    /\ resizes = 0
    /\ "input" \in sinceOver
    /\ "frame" \in sinceOver
    /\ lastEvent = NoEvent

\* C28: in the side-to-side variants the handlers are re-registered only
\* when isJumping changes, so the playerX they hold is the one of the
\* state in which isJumping last changed; a Space press during a jump is
\* accepted exactly if that captured x, not the current one, is inside the
\* band, so a press made with the current centre inside the band is
\* accepted only if the captured x is inside it too.
C28_BandTestUsesCapturedX ==
    [][ (variant \in SideToSide) =>
        /\ IF gameState'.isJumping # gameState.isJumping
           THEN handlerState'.playerX = gameState'.playerX
           ELSE handlerState'.playerX = handlerState.playerX
        /\ (lastEvent'.event = "keydown" /\ gameState.isJumping) =>
              LET centre == handlerState.playerX + 15
                  inside == /\ 2 * centre >= innerWidth - KeyLineWidth(variant)
                            /\ 2 * centre <= innerWidth + KeyLineWidth(variant)
              IN  /\ lastEvent'.command = (IF inside THEN "return" ELSE "none")
                  /\ inside => ( /\ gameState'.isJumping
                                 /\ gameState'.jumpProgress = 0 )
                  /\ ~inside => gameState' = gameState ]_vars

C28_Witness ==
    /\ variant \in SideToSide
    /\ lastEvent = [ event |-> "keydown", command |-> "none" ]
    /\ gameState.isJumping
    /\ gameState.jumpProgress > 0
    /\ resizes = 0
    /\ InBand(gameState.playerX, gameState.playerSize, innerWidth,
              KeyLineWidth(variant))
    /\ ~InBand(handlerState.playerX, handlerState.playerSize, innerWidth,
               KeyLineWidth(variant))

\* C29: in a viewport whose height H stays the same, the obstacle list
\* never holds (H + 180) / 60 + 1 or more obstacles.
C29_ObstacleCountBounded ==
    (variant \in SideToSide /\ resizes = 0) =>
        60 * Len(gameState.obstacles) < innerHeight + 180 + 60

C29_Witness ==
    /\ innerHeight = 110
    /\ resizes = 0
    /\ ~gameState.isGameOver
    /\ Len(gameState.obstacles) = 4
    /\ gameState.lastObstacleTime = gameState.timeElapsed
    /\ gameState.timeElapsed >= 13800

====
